---- MODULE Spec2Model ----
(***************************************************************************)
(* vineetkr-api: the /api/users request handlers (getUsers, createUser,    *)
(* updateUser, deleteUser) over the User collection, with the Zod request  *)
(* schemas, the Mongoose User schema and the Express error middleware.     *)
(*                                                                         *)
(* Every handler is an async function: it runs atomically up to its next   *)
(* `await`, so each action below is the code between two awaits together   *)
(* with the storage call that the await resolves.  Requests in flight      *)
(* interleave at those points.                                             *)
(*                                                                         *)
(* Strings that the code transforms (names, emails) are sequences of       *)
(* one-character strings, so that trim and lowercase are computed.         *)
(***************************************************************************)
EXTENDS Integers, Sequences, FiniteSets, TLC

(***************************************************************************)
(* Bounds of the model.                                                    *)
(***************************************************************************)
\* request slots that may be in flight at the same time
NumReq == 2
\* ObjectIds the store hands out in one behaviour
MaxIds == 2
\* largest reading of the clock that stamps createdAt / updatedAt
MaxClock == 1
\* mongoose.connect calls made in one behaviour
MaxConnects == 5

VARIABLES
    users,   \* the User collection: ObjectId -> document
    nextId,  \* number of ObjectIds generated so far (ids are never re-used)
    now,     \* the clock read by the timestamps plugin
    reqs,    \* request slot -> the handler invocation running in it
    race,    \* history: pairs of slots whose creates raced past the pre-check
    freed,   \* history, kept when freed.on: the emails a User gave up (it was
             \* deleted, or changed its email) and that nobody holds
    isConnected,  \* config/database.js: the module's isConnected flag
    connects,     \* number of mongoose.connect calls made so far
    conn,         \* caller -> where its connectDB invocation stands
    server        \* server.js: where startServer stands

dbVars == <<isConnected, connects, conn, server>>

vars == <<users, nextId, now, reqs, race, freed, isConnected, connects, conn, server>>

Reqs == 1..NumReq

\* the invocations of connectDB: 0 is the one of startServer, the others come
\* from code that runs once the server is up
Callers == 0..NumReq

(***************************************************************************)
(* Values.                                                                 *)
(***************************************************************************)
\* the empty object {} / an absent value (null, undefined)
Empty == [k \in {} |-> 0]

Merge(f, g) ==
    [k \in DOMAIN f \cup DOMAIN g |-> IF k \in DOMAIN g THEN g[k] ELSE f[k]]

Restrict(f, S) == [k \in DOMAIN f \cap S |-> f[k]]

\* identifiers as they arrive in a request: a well-formed ObjectId, a string
\* that is no ObjectId, or nothing
Oid(n) == <<"oid", n>>
Bogus == <<"bogus">>
NoId == <<>>
ObjectIds == {Oid(n) : n \in 1..MaxIds}
IsObjectId(id) == Len(id) = 2

UpperCase == <<"A", "B", "C", "D", "E", "F", "G", "H", "I", "J", "K", "L", "M",
               "N", "O", "P", "Q", "R", "S", "T", "U", "V", "W", "X", "Y", "Z">>
LowerCase == <<"a", "b", "c", "d", "e", "f", "g", "h", "i", "j", "k", "l", "m",
               "n", "o", "p", "q", "r", "s", "t", "u", "v", "w", "x", "y", "z">>

ToLowerChar(c) ==
    IF \E i \in DOMAIN UpperCase : UpperCase[i] = c
    THEN LowerCase[CHOOSE i \in DOMAIN UpperCase : UpperCase[i] = c]
    ELSE c

\* String.prototype.toLowerCase, the `lowercase: true` setter
ToLower(s) == [i \in DOMAIN s |-> ToLowerChar(s[i])]

\* String.prototype.trim, the `trim: true` setter
Trim(s) ==
    LET keep == {i \in DOMAIN s : s[i] # " "}
        lo == CHOOSE i \in keep : \A j \in keep : i <= j
        hi == CHOOSE i \in keep : \A j \in keep : j <= i
    IN  IF keep = {} THEN <<>> ELSE SubSeq(s, lo, hi)

(***************************************************************************)
(* validators/userValidator.js (Zod).                                      *)
(***************************************************************************)
IsLetter(c) ==
    \/ \E i \in DOMAIN UpperCase : UpperCase[i] = c
    \/ \E i \in DOMAIN LowerCase : LowerCase[i] = c

\* z.string().email(): one "@", a local part, dot-separated domain labels
\* and a top-level label of two letters or more
IsEmail(s) ==
    LET ats == {i \in DOMAIN s : s[i] = "@"}
        at == CHOOSE i \in ats : TRUE
        dots == {i \in DOMAIN s : s[i] = "." /\ i > at}
        last == CHOOSE i \in dots : \A j \in dots : j <= i
    IN  /\ Cardinality(ats) = 1
        /\ at > 1
        /\ \A i \in 1..(at - 1) : IsLetter(s[i])
        /\ dots # {}
        /\ \A i \in dots : i > at + 1 /\ (i - 1) \notin dots
        /\ Len(s) - last >= 2
        /\ \A i \in (at + 1)..Len(s) : i \in dots \/ IsLetter(s[i])

Issue(path, message) == [path |-> path, message |-> message]

NameIssuesExclusive(body, required) ==
    IF "name" \notin DOMAIN body
    THEN IF required THEN <<Issue("name", "Required")>> ELSE <<>>
    ELSE IF Len(body.name) <= 2
         THEN <<Issue("name", "Name must be at least 2 characters")>>
         ELSE IF Len(body.name) >= 50
              THEN <<Issue("name", "Name must be less than 50 characters")>>
              ELSE <<>>
NameIssues(body, required) ==
    IF "name" \notin DOMAIN body
    THEN IF required THEN <<Issue("name", "Required")>> ELSE <<>>
    ELSE IF Len(body.name) < 2
         THEN <<Issue("name", "Name must be at least 2 characters")>>
         ELSE IF Len(body.name) > 50
              THEN <<Issue("name", "Name must be less than 50 characters")>>
              ELSE <<>>

EmailIssues(body, required) ==
    IF "email" \notin DOMAIN body
    THEN IF required THEN <<Issue("email", "Required")>> ELSE <<>>
    ELSE IF IsEmail(body.email)
         THEN <<>>
         ELSE <<Issue("email", "Invalid email format")>>

\* a JSON number: `whole`, or `whole` + 0.5 when `half`
Num(whole) == [whole |-> whole, half |-> FALSE]
Half(whole) == [whole |-> whole, half |-> TRUE]
IsInteger(v) == ~v.half
Below(v, n) == v.whole < n
Above(v, n) == v.whole > n \/ (v.whole = n /\ v.half)

\* age: z.number().int().min(0).max(150).optional(); every failed check of
\* the chain adds its issue
AgeIssuesNoInt(body) ==
    IF "age" \notin DOMAIN body
    THEN <<>>
    ELSE (IF Below(body.age, 0)
          THEN <<Issue("age", "Age cannot be negative")>> ELSE <<>>)
         \o (IF Above(body.age, 150)
             THEN <<Issue("age", "Age seems unrealistic")>> ELSE <<>>)
AgeIssues(body) ==
    IF "age" \notin DOMAIN body
    THEN <<>>
    ELSE (IF ~IsInteger(body.age)
          THEN <<Issue("age", "Age must be an integer")>> ELSE <<>>)
         \o (IF Below(body.age, 0)
             THEN <<Issue("age", "Age cannot be negative")>> ELSE <<>>)
         \o (IF Above(body.age, 150)
             THEN <<Issue("age", "Age seems unrealistic")>> ELSE <<>>)

\* the keys of the z.object shape; parse() strips every other key
SchemaKeys == {"name", "email", "age"}

\* createUserSchema.parse(body): the issues (a ZodError when there are any)
\* and the parsed value
createUserSchema(body) ==
    [issues |-> NameIssues(body, TRUE) \o EmailIssues(body, TRUE) \o AgeIssues(body),
     data |-> Restrict(body, SchemaKeys)]

\* updateUserSchema = createUserSchema.partial()
updateUserPassthrough(body) ==
    [issues |-> NameIssues(body, FALSE) \o EmailIssues(body, FALSE) \o AgeIssues(body),
     data |-> body]
updateUserSchema(body) ==
    [issues |-> NameIssues(body, FALSE) \o EmailIssues(body, FALSE) \o AgeIssues(body),
     data |-> Restrict(body, SchemaKeys)]

(***************************************************************************)
(* models/User.js (Mongoose schema) and the collection behind it.          *)
(***************************************************************************)
Error(name, message) == [name |-> name, message |-> message]
ZodError(issues) ==
    [name |-> "ZodError", message |-> "validation issues", errors |-> issues]
CastError == Error("CastError", "Cast to ObjectId failed")
ValidationError == Error("ValidationError", "User validation failed")
DuplicateKeyError == Error("MongoServerError", "E11000 duplicate key error")
StorageError == Error("MongoNetworkError", "connection timed out")

\* the schema's setters, run on documents, on updates and on query filters:
\* name {trim: true}, email {lowercase: true}
CastPathKeepCase(path, v) ==
    CASE path = "name" -> Trim(v)
      [] OTHER -> v
CastPath(path, v) ==
    CASE path = "name" -> Trim(v)
      [] path = "email" -> ToLower(v)
      [] OTHER -> v

CastFields(fields) == [k \in DOMAIN fields |-> CastPath(k, fields[k])]

\* the schema's validators on the paths that are set: name {required: true}
\* (a string must be non-empty), email {required: true}, age {min: 0}
SchemaValid(fields, requireAll) ==
    /\ requireAll => {"name", "email"} \subseteq DOMAIN fields
    /\ "name" \in DOMAIN fields => Len(fields.name) > 0
    /\ "email" \in DOMAIN fields => Len(fields.email) > 0
    /\ "age" \in DOMAIN fields => ~Below(fields.age, 0)

\* email {unique: true}: the unique index refuses a write that would give
\* document `id` an email another document holds
NoUniqueIndex(coll, id, email) == FALSE
UniqueIndexViolated(coll, id, email) ==
    \E other \in DOMAIN coll : other # id /\ coll[other].email = email

\* User.findOne(filter): the filter is cast through the schema first
FindOneUncast(coll, email, notId) ==
    {id \in DOMAIN coll : coll[id].email = email /\ id # notId}
FindOneAnyId(coll, email, notId) ==
    {id \in DOMAIN coll : coll[id].email = ToLower(email)}
FindOne(coll, email, notId) ==
    {id \in DOMAIN coll : coll[id].email = ToLower(email) /\ id # notId}

\* the sequences User.find().sort({createdAt: -1}) may return: every
\* document once, createdAt descending, ties in any order
SortedByCreatedAtAsc(coll) ==
    {s \in [1..Cardinality(DOMAIN coll) -> DOMAIN coll] :
        /\ \A i, j \in DOMAIN s : i # j => s[i] # s[j]
        /\ \A i, j \in DOMAIN s : i < j => coll[s[i]].createdAt <= coll[s[j]].createdAt}
SortedByCreatedAtDesc(coll) ==
    {s \in [1..Cardinality(DOMAIN coll) -> DOMAIN coll] :
        /\ \A i, j \in DOMAIN s : i # j => s[i] # s[j]
        /\ \A i, j \in DOMAIN s : i < j => coll[s[i]].createdAt >= coll[s[j]].createdAt}

\* the _id of a new document: a fresh ObjectId, the n+1st generated; the
\* store never hands out an id again, whether or not its document was deleted
ReuseId(coll, n) ==
    Oid(CHOOSE k \in 1..(n + 1) :
            /\ Oid(k) \notin DOMAIN coll
            /\ \A j \in 1..(k - 1) : Oid(j) \in DOMAIN coll)
GenerateId(coll, n) == Oid(n + 1)

\* new User(data): casting, _id and {timestamps: true}
NewDocument(id, data, time) ==
    Merge(CastFields(data), [_id |-> id, createdAt |-> time, updatedAt |-> time])

\* the $set of findByIdAndUpdate: the cast fields and the refreshed updatedAt
UpdatedDocumentReplace(doc, data, time) ==
    Merge(Restrict(doc, {"_id", "createdAt"}), Merge(CastFields(data), [updatedAt |-> time]))
UpdatedDocumentKeepUpdatedAt(doc, data, time) ==
    IF data = Empty THEN doc ELSE Merge(doc, Merge(CastFields(data), [updatedAt |-> time]))
UpdatedDocument(doc, data, time) ==
    Merge(doc, Merge(CastFields(data), [updatedAt |-> time]))

(***************************************************************************)
(* server.js: the error handling middleware, reached through next(error).  *)
(***************************************************************************)
Json(status, body) == [status |-> status, body |-> body]

ErrorHandler(err) ==
    Json(IF "status" \in DOMAIN err THEN err.status ELSE 500,
         [success |-> FALSE,
          message |-> IF err.message # "" THEN err.message ELSE "Internal Server Error"])

(***************************************************************************)
(* Request slots.                                                          *)
(***************************************************************************)
NoResponse == Json(0, Empty)

\* op: the handler invoked; pc: the storage call it awaits; id, body: the
\* request's id (params or query) and body; data: validatedData; res: the
\* response sent; calls: storage calls issued so far; fault: a storage call
\* of this request was rejected by the store itself; sent: the status of
\* every response written for this request, by the handler or, after
\* next(error), by the error middleware
Idle ==
    [op |-> "none", pc |-> "idle", id |-> NoId, body |-> Empty, data |-> Empty,
     res |-> NoResponse, calls |-> 0, fault |-> FALSE, sent |-> <<>>]

\* slot r runs no handler: a request that arrives may be dispatched to it
\* (requests take the first free slot; the slots are interchangeable)
Free(r) ==
    /\ reqs[r].pc = "idle"
    /\ \A q \in Reqs : q < r => reqs[q].pc # "idle"

\* the storage calls a handler can be awaiting
StorageCalls ==
    {"findById", "find", "findOne", "create", "findByIdAndUpdate", "findByIdAndDelete"}

\* the handler in slot r issues a storage call and awaits it at `pc`
AwaitLock(r, pc) ==
    reqs' = [reqs EXCEPT ![r].pc = "lock"]
Await(r, pc) ==
    reqs' = [reqs EXCEPT ![r].pc = pc, ![r].calls = @ + 1]

\* the handler in slot r sends its response (res.json, or next(error))
RespondTwice(r, res) ==
    reqs' = [reqs EXCEPT ![r].pc = "done", ![r].res = res,
                         ![r].sent = @ \o <<res.status, res.status>>]
Respond(r, res) ==
    reqs' = [reqs EXCEPT ![r].pc = "done", ![r].res = res,
                         ![r].sent = Append(@, res.status)]

\* the request handed to handler `op`, before its first statement
Invoke(op, id, body) == [Idle EXCEPT !.op = op, !.id = id, !.body = body]

Insert(coll, doc) ==
    [i \in DOMAIN coll \cup {doc._id} |-> IF i = doc._id THEN doc ELSE coll[i]]

Remove(coll, id) == [i \in DOMAIN coll \ {id} |-> coll[i]]

\* the catch block of createUser and of updateUser
CatchForward(error) == ErrorHandler(error)
CatchAsData(error) ==
    IF error.name = "ZodError"
    THEN Json(400, [success |-> FALSE, message |-> "Validation error",
                    data |-> error.errors])
    ELSE ErrorHandler(error)
Catch(error) ==
    IF error.name = "ZodError"
    THEN Json(400, [success |-> FALSE, message |-> "Validation error",
                    errors |-> error.errors])
    ELSE ErrorHandler(error)

NotFound == Json(404, [success |-> FALSE, message |-> "User not found"])

(***************************************************************************)
(* History: the pairs of createUser invocations that have both passed the  *)
(* findOne pre-check with the same email before either has inserted.       *)
(***************************************************************************)
PastPreCheck(rq, r) == rq[r].op = "create" /\ rq[r].pc = "create"

Racing(rq) ==
    {p \in SUBSET Reqs :
        /\ Cardinality(p) = 2
        /\ \A r \in p : PastPreCheck(rq, r)
        /\ \A r, q \in p : ToLower(rq[r].data.email) = ToLower(rq[q].data.email)}

\* the emails the Users of a collection hold
Held(coll) == {coll[id].email : id \in DOMAIN coll}

History ==
    /\ race' = {p \in race : \A r \in p : reqs'[r].op = "create"} \cup Racing(reqs')
    /\ freed' = IF freed.on
                THEN [freed EXCEPT !.emails = (@ \cup Held(users)) \ Held(users')]
                ELSE freed

\* the server is up: startServer has connected and is listening, no request
\* is in flight
Listening ==
    /\ users = Empty
    /\ nextId = 0
    /\ now = 0
    /\ reqs = [r \in Reqs |-> Idle]
    /\ race = {}
    /\ isConnected = TRUE
    /\ connects = 1
    /\ conn = [c \in Callers |-> IF c = 0 THEN "returned" ELSE "idle"]
    /\ server = "listening"

Init == Listening /\ freed = [on |-> FALSE, emails |-> {}]

\* the same, with the history of the emails given up kept
InitFreed == Listening /\ freed = [on |-> TRUE, emails |-> {}]

(***************************************************************************)
(* controllers/userController.js: getUsers                                 *)
(***************************************************************************)
getUsers_begin(r, id) ==
    /\ Free(r)
    /\ reqs' = [reqs EXCEPT ![r] =
           [Invoke("get", id, Empty) EXCEPT
               !.calls = 1, !.pc = IF id # NoId THEN "findById" ELSE "find"]]
    /\ UNCHANGED <<users, nextId, now>>
    /\ History
    /\ UNCHANGED dbVars

\* the response of getUsers to a request with an id, once User.findById(id)
\* has been answered from collection `coll`
getUsers_byId(coll, id) ==
    IF ~IsObjectId(id)
    THEN ErrorHandler(CastError)
    ELSE IF id \notin DOMAIN coll
         THEN NotFound
         ELSE Json(200, [success |-> TRUE, data |-> coll[id]])

getUsers_findById(r) ==
    /\ reqs[r].op = "get" /\ reqs[r].pc = "findById"
    /\ Respond(r, getUsers_byId(users, reqs[r].id))
    /\ UNCHANGED <<users, nextId, now>>
    /\ History
    /\ UNCHANGED dbVars

getUsers_find(r) ==
    /\ reqs[r].op = "get" /\ reqs[r].pc = "find"
    /\ \E s \in SortedByCreatedAtDesc(users) :
          Respond(r, Json(200, [success |-> TRUE, count |-> Len(s),
                                data |-> [i \in DOMAIN s |-> users[s[i]]]]))
    /\ UNCHANGED <<users, nextId, now>>
    /\ History
    /\ UNCHANGED dbVars

(***************************************************************************)
(* controllers/userController.js: createUser                               *)
(***************************************************************************)
createUser_parse(r, body) ==
    /\ Free(r)
    /\ nextId + Cardinality({q \in Reqs : reqs[q].op = "create" /\ reqs[q].pc # "done"})
          < MaxIds
    /\ LET parsed == createUserSchema(body)
       IN  IF parsed.issues # <<>>
           THEN reqs' = [reqs EXCEPT ![r] =
                    [Invoke("create", NoId, body) EXCEPT
                        !.pc = "done", !.res = Catch(ZodError(parsed.issues)),
                        !.sent = <<Catch(ZodError(parsed.issues)).status>>]]
           ELSE reqs' = [reqs EXCEPT ![r] =
                    [Invoke("create", NoId, body) EXCEPT
                        !.pc = "findOne", !.data = parsed.data, !.calls = 1]]
    /\ UNCHANGED <<users, nextId, now>>
    /\ History
    /\ UNCHANGED dbVars

createUser_skipCheck(r) ==
    /\ reqs[r].op = "create" /\ reqs[r].pc = "findOne"
    /\ Await(r, "create")
    /\ UNCHANGED <<users, nextId, now>>
    /\ History
    /\ UNCHANGED dbVars
createUser_findOne(r) ==
    /\ reqs[r].op = "create" /\ reqs[r].pc = "findOne"
    /\ IF FindOne(users, reqs[r].data.email, NoId) # {}
       THEN Respond(r, Json(400, [success |-> FALSE,
                                  message |-> "User with this email already exists"]))
       ELSE Await(r, "create")
    /\ UNCHANGED <<users, nextId, now>>
    /\ History
    /\ UNCHANGED dbVars

createUser_create(r) ==
    /\ reqs[r].op = "create" /\ reqs[r].pc = "create"
    /\ LET doc == NewDocument(GenerateId(users, nextId), reqs[r].data, now)
       IN  IF ~SchemaValid(doc, TRUE)
           THEN /\ Respond(r, Catch(ValidationError))
                /\ UNCHANGED <<users, nextId>>
           ELSE IF UniqueIndexViolated(users, doc._id, doc.email)
                THEN /\ Respond(r, Catch(DuplicateKeyError))
                     /\ UNCHANGED <<users, nextId>>
                ELSE /\ users' = Insert(users, doc)
                     /\ nextId' = nextId + 1
                     /\ Respond(r, Json(201, [success |-> TRUE,
                                              message |-> "User created successfully",
                                              data |-> doc]))
    /\ UNCHANGED now
    /\ History
    /\ UNCHANGED dbVars

(***************************************************************************)
(* controllers/userController.js: updateUser                               *)
(***************************************************************************)
updateUser_parse(r, id, body) ==
    /\ Free(r)
    /\ id # NoId
    /\ LET parsed == updateUserSchema(body)
       IN  IF parsed.issues # <<>>
           THEN reqs' = [reqs EXCEPT ![r] =
                    [Invoke("update", id, body) EXCEPT
                        !.pc = "done", !.res = Catch(ZodError(parsed.issues)),
                        !.sent = <<Catch(ZodError(parsed.issues)).status>>]]
           ELSE reqs' = [reqs EXCEPT ![r] =
                    [Invoke("update", id, body) EXCEPT
                        !.data = parsed.data, !.calls = 1,
                        !.pc = IF "email" \in DOMAIN parsed.data
                               THEN "findOne" ELSE "findByIdAndUpdate"]]
    /\ UNCHANGED <<users, nextId, now>>
    /\ History
    /\ UNCHANGED dbVars

updateUser_findOne(r) ==
    /\ reqs[r].op = "update" /\ reqs[r].pc = "findOne"
    /\ IF ~IsObjectId(reqs[r].id)
       THEN Respond(r, Catch(CastError))
       ELSE IF FindOne(users, reqs[r].data.email, reqs[r].id) # {}
            THEN Respond(r, Json(400, [success |-> FALSE,
                                       message |-> "Email already in use by another user"]))
            ELSE Await(r, "findByIdAndUpdate")
    /\ UNCHANGED <<users, nextId, now>>
    /\ History
    /\ UNCHANGED dbVars

updateUser_findByIdAndUpdate(r) ==
    /\ reqs[r].op = "update" /\ reqs[r].pc = "findByIdAndUpdate"
    /\ LET id == reqs[r].id
           data == reqs[r].data
       IN  IF ~IsObjectId(id)
           THEN Respond(r, Catch(CastError)) /\ UNCHANGED users
           ELSE IF ~SchemaValid(CastFields(data), FALSE)
           THEN Respond(r, Catch(ValidationError)) /\ UNCHANGED users
           ELSE IF id \notin DOMAIN users
           THEN Respond(r, NotFound) /\ UNCHANGED users
           ELSE LET doc == UpdatedDocument(users[id], data, now)
                IN  IF UniqueIndexViolated(users, id, doc.email)
                    THEN Respond(r, Catch(DuplicateKeyError)) /\ UNCHANGED users
                    ELSE /\ users' = [users EXCEPT ![id] = doc]
                         /\ Respond(r, Json(200, [success |-> TRUE,
                                                  message |-> "User updated successfully",
                                                  data |-> doc]))
    /\ UNCHANGED <<nextId, now>>
    /\ History
    /\ UNCHANGED dbVars

(***************************************************************************)
(* controllers/userController.js: deleteUser                               *)
(***************************************************************************)
deleteUser_begin(r, id) ==
    /\ Free(r)
    /\ id # NoId
    /\ reqs' = [reqs EXCEPT ![r] =
           [Invoke("delete", id, Empty) EXCEPT
               !.calls = 1, !.pc = "findByIdAndDelete"]]
    /\ UNCHANGED <<users, nextId, now>>
    /\ History
    /\ UNCHANGED dbVars

deleteUser_findByIdAndDelete(r) ==
    /\ reqs[r].op = "delete" /\ reqs[r].pc = "findByIdAndDelete"
    /\ LET id == reqs[r].id
       IN  IF ~IsObjectId(id)
           THEN Respond(r, ErrorHandler(CastError)) /\ UNCHANGED users
           ELSE IF id \notin DOMAIN users
           THEN Respond(r, NotFound) /\ UNCHANGED users
           ELSE /\ users' = Remove(users, id)
                /\ Respond(r, Json(200, [success |-> TRUE,
                                         message |-> "User deleted successfully",
                                         data |-> users[id]]))
    /\ UNCHANGED <<nextId, now>>
    /\ History
    /\ UNCHANGED dbVars

(***************************************************************************)
(* The environment: a storage call that rejects, the response leaving the  *)
(* server, the clock.                                                      *)
(***************************************************************************)
\* an awaited storage call rejects (connectivity, timeout): the handler's
\* catch block forwards the error with next(error)
storageRetries(r) ==
    /\ reqs[r].pc \in StorageCalls
    /\ reqs[r].calls < 3
    /\ reqs' = [reqs EXCEPT ![r].calls = @ + 1, ![r].fault = TRUE]
    /\ UNCHANGED <<users, nextId, now>>
    /\ History
    /\ UNCHANGED dbVars
storageRejects(r) ==
    /\ reqs[r].pc \in StorageCalls
    /\ reqs' = [reqs EXCEPT ![r].pc = "done", ![r].fault = TRUE,
                            ![r].res = ErrorHandler(StorageError),
                            ![r].sent = Append(@, ErrorHandler(StorageError).status)]
    /\ UNCHANGED <<users, nextId, now>>
    /\ History
    /\ UNCHANGED dbVars

\* the response has been written; the slot is free for the next request
Finish(r) ==
    /\ reqs[r].pc = "done"
    /\ reqs' = [reqs EXCEPT ![r] = Idle]
    /\ UNCHANGED <<users, nextId, now>>
    /\ History
    /\ UNCHANGED dbVars

Tick ==
    /\ now < MaxClock
    /\ now' = now + 1
    /\ UNCHANGED <<users, nextId, reqs, race, freed>>
    /\ UNCHANGED dbVars

(***************************************************************************)
(* config/database.js (connectDB, the connection events) and startServer   *)
(* of server.js.                                                           *)
(***************************************************************************)
\* the process starts: nothing is connected, startServer has not run yet
InitBoot ==
    /\ users = Empty
    /\ nextId = 0
    /\ now = 0
    /\ reqs = [r \in Reqs |-> Idle]
    /\ race = {}
    /\ freed = [on |-> FALSE, emails |-> {}]
    /\ isConnected = FALSE
    /\ connects = 0
    /\ conn = [c \in Callers |-> "idle"]
    /\ server = "starting"

\* connectDB up to its await: return at once when the flag is set, call
\* mongoose.connect otherwise
connectDB_always(c) ==
    /\ conn[c] = "idle"
    /\ connects < MaxConnects
    /\ connects' = connects + 1
    /\ conn' = [conn EXCEPT ![c] = "connect"]
    /\ UNCHANGED isConnected
connectDB(c) ==
    /\ conn[c] = "idle"
    /\ IF isConnected
       THEN /\ conn' = [conn EXCEPT ![c] = "returned"]
            /\ UNCHANGED connects
       ELSE /\ connects < MaxConnects
            /\ connects' = connects + 1
            /\ conn' = [conn EXCEPT ![c] = "connect"]
    /\ UNCHANGED isConnected

\* startServer: await connectDB()
startServer_connectDB ==
    /\ server = "starting"
    /\ connectDB(0)
    /\ server' = "connecting"
    /\ UNCHANGED <<users, nextId, now, reqs, race, freed>>

\* connectDB called again while the server is up
connectDB_call(c) ==
    /\ server = "listening"
    /\ c # 0
    /\ connectDB(c)
    /\ UNCHANGED <<server, users, nextId, now, reqs, race, freed>>

\* await mongoose.connect(...) resolves: isConnected = true
connect_resolves(c) ==
    /\ server \in {"connecting", "listening"}
    /\ conn[c] = "connect"
    /\ isConnected' = TRUE
    /\ conn' = [conn EXCEPT ![c] = "returned"]
    /\ UNCHANGED <<connects, server, users, nextId, now, reqs, race, freed>>

\* await mongoose.connect(...) rejects: the catch block logs and rethrows
connect_rejects(c) ==
    /\ server \in {"connecting", "listening"}
    /\ conn[c] = "connect"
    /\ conn' = [conn EXCEPT ![c] = "thrown"]
    /\ UNCHANGED <<isConnected, connects, server, users, nextId, now, reqs, race, freed>>

\* the caller of connectDB has seen it return or throw
connectDB_done(c) ==
    /\ server = "listening"
    /\ c # 0
    /\ conn[c] \in {"returned", "thrown"}
    /\ conn' = [conn EXCEPT ![c] = "idle"]
    /\ UNCHANGED <<isConnected, connects, server, users, nextId, now, reqs, race, freed>>

\* startServer after connectDB returned: app.listen(PORT)
startServer_listen ==
    /\ server = "connecting"
    /\ conn[0] = "returned"
    /\ server' = "listening"
    /\ UNCHANGED <<isConnected, connects, conn, users, nextId, now, reqs, race, freed>>

\* startServer after connectDB threw: process.exit(1)
startServer_listenAnyway ==
    /\ server = "connecting"
    /\ conn[0] = "thrown"
    /\ server' = "listening"
    /\ UNCHANGED <<isConnected, connects, conn, users, nextId, now, reqs, race, freed>>
startServer_exit ==
    /\ server = "connecting"
    /\ conn[0] = "thrown"
    /\ server' = "exited"
    /\ UNCHANGED <<isConnected, connects, conn, users, nextId, now, reqs, race, freed>>

\* mongoose.connection.on('disconnected')
onDisconnected ==
    /\ server \in {"connecting", "listening"}
    /\ isConnected' = FALSE
    /\ UNCHANGED <<connects, conn, server, users, nextId, now, reqs, race, freed>>

\* mongoose.connection.on('error')
onError ==
    /\ server \in {"connecting", "listening"}
    /\ isConnected' = FALSE
    /\ UNCHANGED <<connects, conn, server, users, nextId, now, reqs, race, freed>>

NextBoot ==
    \/ startServer_connectDB
    \/ \E c \in Callers : connectDB_call(c)
    \/ \E c \in Callers : connect_resolves(c)
    \/ \E c \in Callers : connect_rejects(c)
    \/ \E c \in Callers : connectDB_done(c)
    \/ startServer_listen
    \/ startServer_exit
    \/ onDisconnected
    \/ onError

\* the process from its start: startServer, later connectDB calls and the
\* connection's events
SpecBoot == InitBoot /\ [][NextBoot]_vars

(***************************************************************************)
(* Request inputs.                                                         *)
(***************************************************************************)
EmailA == <<"a", "@", "b", ".", "i", "o">>
EmailUpperA == <<"A", "@", "b", ".", "i", "o">>
EmailC == <<"c", "@", "b", ".", "i", "o">>
EmailD == <<"d", "@", "b", ".", "i", "o">>
NotAnEmail == <<"a", ".", "b">>

NameJ == <<"J">>
NameJo == <<"J", "o">>
NameAl == <<" ", "A", "l">>
NameBlank == <<" ", " ">>

Bodies(names, emails, ages) ==
    {Merge(Merge(n, e), a) :
        n \in {Empty} \cup {[name |-> x] : x \in names},
        e \in {Empty} \cup {[email |-> x] : x \in emails},
        a \in {Empty} \cup {[age |-> x] : x \in ages}}

\* requests in flight together: the email decides how they interfere
ConcurrentBodies == Bodies({NameJo}, {EmailA, EmailUpperA, EmailC, NotAnEmail}, {})

\* one request at a time: valid fields, present or absent, a name to trim,
\* bodies that break each constraint, and a body with keys outside the schema
SequentialBodies ==
    Bodies({NameJo}, {EmailA, EmailUpperA, EmailC}, {})
        \cup {[age |-> Num(150)],
              [name |-> NameJo, email |-> EmailC, age |-> Num(150)],
              [name |-> NameAl],
              [name |-> NameAl, email |-> EmailUpperA],
              [name |-> NameJ, email |-> EmailA],
              [name |-> NameJo, email |-> NotAnEmail],
              [name |-> NameJo, email |-> EmailC, age |-> Num(-1)],
              [name |-> NameJ, email |-> NotAnEmail, age |-> Num(-1)],
              [name |-> NameBlank, email |-> EmailC],
              [name |-> NameBlank],
              [age |-> Num(-1)],
              [name |-> NameJo, id |-> Oid(2), _id |-> Oid(2), createdAt |-> 9]}

Step(r, ids, bodies) ==
    \/ \E id \in ids \cup {NoId} : getUsers_begin(r, id)
    \/ getUsers_findById(r)
    \/ getUsers_find(r)
    \/ \E body \in bodies : createUser_parse(r, body)
    \/ createUser_findOne(r)
    \/ createUser_create(r)
    \/ \E id \in ids, body \in bodies : updateUser_parse(r, id, body)
    \/ updateUser_findOne(r)
    \/ updateUser_findByIdAndUpdate(r)
    \/ \E id \in ids : deleteUser_begin(r, id)
    \/ deleteUser_findByIdAndDelete(r)
    \/ storageRejects(r)
    \/ Finish(r)

Next ==
    \/ \E r \in Reqs : Step(r, ObjectIds, ConcurrentBodies)
    \/ Tick

\* any number of requests in flight, interleaved at their awaits
Spec == Init /\ [][Next]_vars

NextSeq ==
    \/ Step(1, ObjectIds \cup {Bogus}, SequentialBodies)
    \/ Tick

\* requests served one after the other
SpecSeq == Init /\ [][NextSeq]_vars

\* a name of n characters
NameOfLen(n) == [i \in 1..n |-> "x"]

\* bodies around the limits of the name: one character, two, fifty,
\* fifty-one, or no name, with the other fields valid, invalid or absent
BoundaryBodies ==
    Bodies({NameOfLen(n) : n \in {1, 2, 50, 51}}, {EmailA, NotAnEmail}, {Num(30), Num(-1)})

NextParse ==
    \/ \E body \in BoundaryBodies : createUser_parse(1, body)
    \/ \E id \in ObjectIds, body \in BoundaryBodies : updateUser_parse(1, id, body)
    \/ Finish(1)

\* requests followed up to the end of schema validation
SpecParse == Init /\ [][NextParse]_vars

\* writes in flight together that choose the same new email: creates of
\* Users with three different emails, and updates to the third
RaceBodies ==
    {[name |-> NameJo, email |-> EmailA],
     [name |-> NameJo, email |-> EmailC],
     [name |-> NameJo, email |-> EmailD],
     [email |-> EmailD]}

NextRace ==
    \/ \E r \in Reqs : Step(r, ObjectIds, RaceBodies)
    \/ Tick

\* requests in flight together, their bodies chosen to collide on an email
SpecRace == Init /\ [][NextRace]_vars

\* creates, and updates that change the email, over two emails; one create
\* carries a name of two spaces
FreedBodies ==
    {[name |-> NameJo, email |-> EmailA],
     [name |-> NameJo, email |-> EmailC],
     [name |-> NameBlank, email |-> EmailUpperA],
     [email |-> EmailC],
     [name |-> NameAl]}

NextFreed ==
    \/ Step(1, ObjectIds, FreedBodies)
    \/ Tick

\* requests served one after the other, the emails given up remembered
SpecFreed == InitFreed /\ [][NextFreed]_vars

\* a create and an update that need two storage calls each
LiveBodies == {[name |-> NameJo, email |-> EmailA], [email |-> EmailUpperA]}

NextLive == \E r \in Reqs : Step(r, ObjectIds, LiveBodies)

\* the storage call that the handler in slot r awaits returns or fails, and
\* the handler runs on to its next await or to its response
Settle(r) ==
    \/ getUsers_findById(r)
    \/ getUsers_find(r)
    \/ createUser_findOne(r)
    \/ createUser_create(r)
    \/ updateUser_findOne(r)
    \/ updateUser_findByIdAndUpdate(r)
    \/ deleteUser_findByIdAndDelete(r)
    \/ storageRejects(r)

\* requests in flight together, every storage call issued eventually
\* settled and every handler eventually scheduled
SpecLive ==
    /\ Init
    /\ [][NextLive]_vars
    /\ \A r \in Reqs : WF_vars(Settle(r))

\* bodies around the limits of the age: -1, 0, 150, 151, two ages that are
\* no integers (2.5 and -0.5), or no age
AgeBodies ==
    Bodies({NameJo}, {EmailA},
           {Num(-1), Num(0), Num(150), Num(151), Half(2), Half(-1)})

NextAge ==
    \/ Step(1, ObjectIds, AgeBodies)
    \/ Tick

\* requests served one after the other, their bodies differing in the age
SpecAge == Init /\ [][NextAge]_vars

(***************************************************************************)
(* Properties.                                                             *)
(***************************************************************************)
Done(r) == reqs[r].pc = "done"

\* the emails of two documents, or of a request and a document, are
\* compared in their stored (lowercase) form
Holders(email) == {id \in DOMAIN users : users[id].email = ToLower(email)}

\* in this step the store answers the findOne pre-check of handler `op`
PreCheckAnswered(r, op) ==
    /\ reqs[r].op = op /\ reqs[r].pc = "findOne"
    /\ reqs'[r].pc # "findOne"
    /\ ~reqs'[r].fault

\* in this step findByIdAndUpdate returns the updated document
UpdateApplied(r) ==
    /\ reqs[r].op = "update" /\ reqs[r].pc = "findByIdAndUpdate"
    /\ reqs'[r].pc = "done"
    /\ reqs'[r].res.status = 200

\* the body in slot r fails the schema of its handler
FailsSchema(r) ==
    \/ reqs[r].op = "create" /\ createUserSchema(reqs[r].body).issues # <<>>
    \/ reqs[r].op = "update" /\ updateUserSchema(reqs[r].body).issues # <<>>

\* C1: in every reachable state, whatever the interleaving of create, update
\* and delete requests, no two stored Users have the same email.
C1_EmailUnique ==
    \A i, j \in DOMAIN users : i # j => users[i].email # users[j].email

\* C1 witness: two Users are stored and an update that had passed its
\* pre-check was refused the email the other User took in the meantime.
C1_Witness ==
    /\ Cardinality(DOMAIN users) = 2
    /\ \E r \in Reqs :
          /\ reqs[r].op = "update" /\ Done(r)
          /\ reqs[r].res = ErrorHandler(DuplicateKeyError)

C3_InvalidBodyNoStorage ==
    \A r \in Reqs :
        FailsSchema(r)
            => /\ Done(r)
               /\ reqs[r].res.status = 400
               /\ reqs[r].res.body.success = FALSE
               /\ reqs[r].res.body.message = "Validation error"
               /\ reqs[r].calls = 0
               /\ ~reqs[r].fault

\* C3 witness: an update of a stored User with an invalid body was refused.
C3_Witness ==
    \E r \in Reqs :
        /\ reqs[r].op = "update" /\ FailsSchema(r) /\ Done(r)
        /\ reqs[r].id \in DOMAIN users

\* C4: when the pre-check of a create finds the email held by a stored
\* User, the request ends there with 400 "User with this email already
\* exists", after that one read, and the collection is unchanged.
C4_CreateConflict ==
    [][\A r \in Reqs :
          (PreCheckAnswered(r, "create") /\ Holders(reqs[r].data.email) # {})
              => /\ reqs'[r].pc = "done"
                 /\ reqs'[r].res =
                        Json(400, [success |-> FALSE,
                                   message |-> "User with this email already exists"])
                 /\ reqs'[r].calls = 1
                 /\ users' = users]_vars

\* C4 witness: a create was answered with the conflict while a User holds
\* its email.
C4_Witness ==
    \E r \in Reqs :
        /\ reqs[r].op = "create" /\ Done(r)
        /\ reqs[r].res.body.message = "User with this email already exists"
        /\ Holders(reqs[r].data.email) # {}

\* C5: a create whose email differs only in letter case from the email of a
\* stored User is answered with the 400 conflict.
C5_CaseInsensitiveConflict ==
    [][\A r \in Reqs :
          (/\ PreCheckAnswered(r, "create")
           /\ \E id \in DOMAIN users :
                 /\ users[id].email # reqs[r].data.email
                 /\ ToLower(users[id].email) = ToLower(reqs[r].data.email))
              => /\ reqs'[r].res.status = 400
                 /\ reqs'[r].res.body.message = "User with this email already exists"]_vars

\* C5 witness: a create with an uppercase letter in its email was answered
\* with the conflict.
C5_Witness ==
    \E r \in Reqs :
        /\ reqs[r].op = "create" /\ Done(r)
        /\ reqs[r].res.body.message = "User with this email already exists"
        /\ reqs[r].data.email # ToLower(reqs[r].data.email)

\* C6: every stored email is lowercase, and the document returned by a
\* successful create or update carries the lowercase form of the payload's
\* email.
C6_EmailLowercase ==
    /\ \A id \in DOMAIN users : users[id].email = ToLower(users[id].email)
    /\ \A r \in Reqs :
          (/\ Done(r) /\ reqs[r].op \in {"create", "update"}
           /\ reqs[r].res.body.success
           /\ "email" \in DOMAIN reqs[r].data)
              => reqs[r].res.body.data.email = ToLower(reqs[r].data.email)

\* C6 witness: an update with an uppercase letter in the payload's email has
\* succeeded and the User holds the lowercase form.
C6_Witness ==
    \E r \in Reqs :
        /\ Done(r) /\ reqs[r].op = "update" /\ reqs[r].res.status = 200
        /\ "email" \in DOMAIN reqs[r].data
        /\ reqs[r].data.email # ToLower(reqs[r].data.email)
        /\ users[reqs[r].id].email = ToLower(reqs[r].data.email)

\* C7: when the pre-check of an update of a stored User is answered and the
\* payload's email is that User's own current email, the request is not
\* answered with the conflict: it goes on to findByIdAndUpdate.
C7_NoSelfConflict ==
    [][\A r \in Reqs :
          (/\ PreCheckAnswered(r, "update")
           /\ reqs[r].id \in DOMAIN users
           /\ users[reqs[r].id].email = ToLower(reqs[r].data.email))
              => /\ reqs'[r].res.status # 400
                 /\ reqs'[r].pc = "findByIdAndUpdate"]_vars

\* C7 witness: an update carrying the User's own email has passed the
\* pre-check and awaits findByIdAndUpdate.
C7_Witness ==
    \E r \in Reqs :
        /\ reqs[r].op = "update" /\ reqs[r].pc = "findByIdAndUpdate"
        /\ reqs[r].calls = 2
        /\ reqs[r].id \in DOMAIN users
        /\ users[reqs[r].id].email = ToLower(reqs[r].data.email)

\* C8 as stated: when the pre-check of an update is answered and the
\* payload's email is held by a stored User with another id, the request is
\* answered 400 "Email already in use by another user" and no record changes.
C8_UpdateConflict ==
    [][\A r \in Reqs :
          (/\ PreCheckAnswered(r, "update")
           /\ \E other \in Holders(reqs[r].data.email) : other # reqs[r].id)
              => /\ reqs'[r].res =
                        Json(400, [success |-> FALSE,
                                   message |-> "Email already in use by another user"])
                 /\ users' = users]_vars

\* C9 as stated: a successful update changes only the fields of the payload
\* on the User with the given id; every field absent from the payload keeps
\* its value and every other User is unchanged.
C9_OnlyPayloadFields ==
    [][\A r \in Reqs :
          UpdateApplied(r)
              => LET id == reqs[r].id
                     data == reqs[r].data
                 IN  /\ DOMAIN users' = DOMAIN users
                     /\ \A o \in DOMAIN users \ {id} : users'[o] = users[o]
                     /\ DOMAIN users'[id] = DOMAIN users[id] \cup DOMAIN data
                     /\ \A f \in DOMAIN users[id] \ DOMAIN data :
                           users'[id][f] = users[id][f]]_vars

\* C9 amended: a successful update changes only the fields of the payload
\* and updatedAt, which is set to the time of the update, on the User with
\* the given id; every other field keeps its value and every other User is
\* unchanged.
C9_OnlyPayloadFieldsAndUpdatedAt ==
    [][\A r \in Reqs :
          UpdateApplied(r)
              => LET id == reqs[r].id
                     data == reqs[r].data
                 IN  /\ DOMAIN users' = DOMAIN users
                     /\ \A o \in DOMAIN users \ {id} : users'[o] = users[o]
                     /\ DOMAIN users'[id] = DOMAIN users[id] \cup DOMAIN data
                     /\ \A f \in DOMAIN users[id] \ (DOMAIN data \cup {"updatedAt"}) :
                           users'[id][f] = users[id][f]
                     /\ users'[id].updatedAt = now]_vars

\* C9 witness: an update carrying only an age has succeeded on a User
\* created earlier, next to another stored User.
C9_Witness ==
    \E r \in Reqs :
        /\ reqs[r].op = "update" /\ Done(r) /\ reqs[r].res.status = 200
        /\ DOMAIN reqs[r].data = {"age"}
        /\ Cardinality(DOMAIN users) = 2
        /\ users[reqs[r].id].updatedAt > users[reqs[r].id].createdAt

\* C10 as stated: a get by a non-empty id that identifies no stored User,
\* well-formed or not, is answered 404 "User not found".
C10_UnknownIdNotFound ==
    \A r \in Reqs :
        (/\ reqs[r].op = "get" /\ Done(r) /\ ~reqs[r].fault
         /\ reqs[r].id # NoId
         /\ reqs[r].id \notin DOMAIN users)
            => reqs[r].res = Json(404, [success |-> FALSE, message |-> "User not found"])

\* in this step the store answers the findByIdAndDelete of slot r
DeleteAnswered(r) ==
    /\ reqs[r].op = "delete" /\ reqs[r].pc = "findByIdAndDelete"
    /\ reqs'[r].pc = "done"
    /\ ~reqs'[r].fault

\* C11 as stated: a delete whose id identifies no stored User (never created,
\* already deleted, or malformed) is answered 404 "User not found", never
\* 500, and leaves the collection unchanged.
C11_DeleteUnknownNotFound ==
    [][\A r \in Reqs :
          (DeleteAnswered(r) /\ reqs[r].id \notin DOMAIN users)
              => /\ reqs'[r].res = Json(404, [success |-> FALSE,
                                              message |-> "User not found"])
                 /\ users' = users]_vars

\* in this step the store answers the User.create of slot r
CreateAnswered(r) ==
    /\ reqs[r].op = "create" /\ reqs[r].pc = "create"
    /\ reqs'[r].pc = "done"
    /\ ~reqs'[r].fault

\* C12 as stated: when User.create is answered for a valid payload whose
\* email no stored User holds, the response is 201, and a get by the returned
\* id on the resulting collection is answered 200 with a record whose name,
\* email (lowercased) and age are the payload's, plus _id, createdAt and
\* updatedAt.
C12_CreateThenGet ==
    [][\A r \in Reqs :
          (CreateAnswered(r) /\ Holders(reqs[r].data.email) = {})
              => /\ reqs'[r].res.status = 201
                 /\ LET data == reqs[r].data
                        got == getUsers_byId(users', reqs'[r].res.body.data._id)
                    IN  /\ got.status = 200
                        /\ DOMAIN got.body.data =
                              DOMAIN data \cup {"_id", "createdAt", "updatedAt"}
                        /\ got.body.data.name = data.name
                        /\ got.body.data.email = ToLower(data.email)
                        /\ "age" \in DOMAIN data => got.body.data.age = data.age]_vars

\* id was handed out by the store and identifies no stored User any more: its
\* User was deleted
Deleted(id) == id \in {Oid(n) : n \in 1..nextId} \ DOMAIN users

\* in this step the store answers the storage call that the handler in slot
\* r awaits, and the handler sends its response
Answered(r) ==
    /\ reqs[r].pc \notin {"idle", "done"}
    /\ reqs'[r].pc = "done"
    /\ ~reqs'[r].fault

\* the _id of every record in the data of a list response
ListedIds(res) == {res.body.data[i]._id : i \in DOMAIN res.body.data}

NonConflicting(r) ==
    "email" \in DOMAIN reqs[r].data => Holders(reqs[r].data.email) = {}

\* C14 as stated: an update whose body passed validation and conflicts with
\* no stored User, for an id that identifies no stored User, is answered 404
\* "User not found", and no record is created.
C14_UpdateUnknownNotFound ==
    [][\A r \in Reqs :
          (/\ Answered(r) /\ reqs[r].op = "update"
           /\ reqs[r].id \notin DOMAIN users
           /\ NonConflicting(r))
              => /\ reqs'[r].res = Json(404, [success |-> FALSE,
                                              message |-> "User not found"])
                 /\ users' = users]_vars

\* C15: the _id and createdAt of a stored User never change while it is
\* stored, whatever the body of an update contains, and its _id is the id it
\* is stored under.
C15_IdCreatedAtImmutable ==
    [][\A id \in DOMAIN users \cap DOMAIN users' :
          /\ users[id]._id = id
          /\ users'[id]._id = users[id]._id
          /\ users'[id].createdAt = users[id].createdAt]_vars

\* C15 witness: an update whose body carries id, _id and createdAt, all
\* different from the User's, has succeeded.
C15_Witness ==
    \E r \in Reqs :
        /\ reqs[r].op = "update" /\ Done(r) /\ reqs[r].res.status = 200
        /\ {"id", "_id", "createdAt"} \subseteq DOMAIN reqs[r].body
        /\ reqs[r].body._id # users[reqs[r].id]._id
        /\ reqs[r].body.createdAt # users[reqs[r].id].createdAt

\* C16: a User is created with updatedAt equal to createdAt, the moment of
\* creation; every update answered 200, one with an empty body included,
\* sets updatedAt to the moment of the update; updatedAt is never earlier
\* than createdAt and never moves backwards.
C16_UpdatedAtRefreshed ==
    [][/\ \A id \in DOMAIN users' : users'[id].updatedAt >= users'[id].createdAt
       /\ \A id \in DOMAIN users' \ DOMAIN users :
             /\ users'[id].createdAt = now
             /\ users'[id].updatedAt = users'[id].createdAt
       /\ \A id \in DOMAIN users \cap DOMAIN users' :
             users'[id].updatedAt >= users[id].updatedAt
       /\ \A r \in Reqs :
             UpdateApplied(r) => users'[reqs[r].id].updatedAt = now]_vars

\* C16 witness: an update with an empty body has been answered 200 and the
\* User's updatedAt is later than its createdAt.
C16_Witness ==
    \E r \in Reqs :
        /\ reqs[r].op = "update" /\ Done(r) /\ reqs[r].res.status = 200
        /\ reqs[r].body = Empty
        /\ reqs[r].res.body.data.updatedAt > reqs[r].res.body.data.createdAt
        /\ users[reqs[r].id] = reqs[r].res.body.data

\* in this step the store answers the User.find of a get without an id
ListAnswered(r) ==
    /\ Answered(r)
    /\ reqs[r].op = "get" /\ reqs[r].pc = "find"

\* C17: a get without an id is answered 200 with data holding every stored
\* User exactly once, in descending createdAt order, and count equal to the
\* length of data; on an empty collection count is 0 and data is empty.
C17_ListAll ==
    [][\A r \in Reqs :
          ListAnswered(r)
              => LET res == reqs'[r].res
                     data == res.body.data
                 IN  /\ res.status = 200 /\ res.body.success
                     /\ res.body.count = Len(data)
                     /\ Len(data) = Cardinality(DOMAIN users)
                     /\ {data[i] : i \in DOMAIN data} = {users[id] : id \in DOMAIN users}
                     /\ \A i, j \in DOMAIN data :
                           i < j => data[i].createdAt >= data[j].createdAt
                     /\ users = Empty => res.body.count = 0 /\ data = <<>>]_vars

\* C17 witness: a list of two Users created at different moments has been
\* returned, the later one first.
C17_Witness ==
    \E r \in Reqs :
        /\ reqs[r].op = "get" /\ reqs[r].id = NoId /\ Done(r)
        /\ reqs[r].res.status = 200
        /\ reqs[r].res.body.count = 2
        /\ reqs[r].res.body.data[1].createdAt > reqs[r].res.body.data[2].createdAt

\* the request in slot r was answered by the error handling middleware: its
\* handler caught an error that is no ZodError and passed it to next(error)
Forwarded(r) ==
    /\ Done(r)
    /\ \/ reqs[r].fault
       \/ reqs[r].res \in {ErrorHandler(CastError), ErrorHandler(ValidationError),
                           ErrorHandler(DuplicateKeyError)}

\* C18 as stated: every failure passed to the error handling middleware is
\* answered 500 with the envelope {success: false, message}, and the message
\* is the same generic text whatever the error.
C18_GenericMessage ==
    \A r \in Reqs :
        Forwarded(r)
            => /\ reqs[r].res.status = 500
               /\ DOMAIN reqs[r].res.body = {"success", "message"}
               /\ reqs[r].res.body.success = FALSE
               /\ reqs[r].res.body.message = "Internal Server Error"

\* the storage calls a handler issues when none fails: createUser findOne
\* and create, updateUser findOne (when the body has an email) and
\* findByIdAndUpdate, getUsers and deleteUser one call
CallsIssued(rq) ==
    CASE rq.pc \in {"findById", "find", "findByIdAndDelete", "findOne"} -> 1
      [] rq.pc = "create" -> 2
      [] rq.pc = "findByIdAndUpdate" ->
            IF "email" \in DOMAIN rq.data THEN 2 ELSE 1
      [] OTHER -> rq.calls

\* C19: a handler issues each of its storage calls once; when a storage call
\* is rejected with a storage error the request is answered 500 in the same
\* step, without another storage call and without a change to the
\* collection, and a request that has been answered issues no further call.
C19_NoRetry ==
    [][\A r \in Reqs :
          /\ reqs'[r].calls = CallsIssued(reqs'[r])
          /\ reqs'[r].calls <= 2
          /\ (reqs'[r].fault /\ ~reqs[r].fault)
                => /\ reqs'[r].pc = "done"
                   /\ reqs'[r].calls = reqs[r].calls
                   /\ reqs'[r].res.status = 500
                   /\ reqs'[r].res.body.success = FALSE
                   /\ users' = users
          /\ (Done(r) /\ reqs'[r].op # "none") => reqs'[r] = reqs[r]]_vars

\* C19 witness: the second storage call of an update was rejected and the
\* request was answered 500 after exactly two calls.
C19_Witness ==
    \E r \in Reqs :
        /\ reqs[r].op = "update" /\ Done(r)
        /\ reqs[r].fault
        /\ reqs[r].calls = 2
        /\ reqs[r].res.status = 500

\* the schema of the handler in slot r refused the name of the body: the
\* request was answered 400 "Validation error" with an issue on path name
NameRejected(r) ==
    /\ Done(r)
    /\ reqs[r].res.status = 400
    /\ reqs[r].res.body.message = "Validation error"
    /\ \E i \in DOMAIN reqs[r].res.body.errors : reqs[r].res.body.errors[i].path = "name"

\* C20: the create and update schemas reject a name of length 1 or 51 and
\* accept a name of length 2 or 50; the create schema rejects a body without
\* a name and the update schema accepts it.
C20_NameBoundaries ==
    \A r \in Reqs :
        reqs[r].op \in {"create", "update"}
            => IF "name" \in DOMAIN reqs[r].body
               THEN /\ Len(reqs[r].body.name) \in {1, 51} => NameRejected(r)
                    /\ Len(reqs[r].body.name) \in {2, 50} => ~NameRejected(r)
               ELSE NameRejected(r) <=> reqs[r].op = "create"

\* C20 witness: a create whose name has 50 characters has passed validation
\* and awaits its first storage call.
C20_Witness ==
    \E r \in Reqs :
        /\ reqs[r].op = "create" /\ reqs[r].pc = "findOne"
        /\ Len(reqs[r].body.name) = 50
        /\ reqs[r].data = reqs[r].body

\* the schema of the handler in slot r refused the age of the body: the
\* request was answered 400 "Validation error" with an issue on path age
AgeRejected(r) ==
    /\ Done(r)
    /\ reqs[r].res.status = 400
    /\ reqs[r].res.body.message = "Validation error"
    /\ \E i \in DOMAIN reqs[r].res.body.errors : reqs[r].res.body.errors[i].path = "age"

\* C21: the create and update schemas reject an age of -1 or 151 and every
\* age that is no integer, and accept an age of 0 or 150 and a body without
\* an age; every stored age is an integer between 0 and 150.
C21_AgeBoundaries ==
    /\ \A r \in Reqs :
          reqs[r].op \in {"create", "update"}
              => IF "age" \in DOMAIN reqs[r].body
                 THEN LET age == reqs[r].body.age
                      IN  /\ (age \in {Num(-1), Num(151)} \/ ~IsInteger(age))
                                => AgeRejected(r)
                          /\ age \in {Num(0), Num(150)} => ~AgeRejected(r)
                 ELSE ~AgeRejected(r)
    /\ \A id \in DOMAIN users :
          "age" \in DOMAIN users[id]
              => /\ IsInteger(users[id].age)
                 /\ ~Below(users[id].age, 0)
                 /\ ~Above(users[id].age, 150)

\* C21 witness: a User holds the age 150 and an update carrying the age 2.5
\* has been refused.
C21_Witness ==
    /\ \E id \in DOMAIN users :
          "age" \in DOMAIN users[id] /\ users[id].age = Num(150)
    /\ \E r \in Reqs :
          /\ reqs[r].op = "update" /\ AgeRejected(r)
          /\ reqs[r].body.age = Half(2)

\* C22: every response carries a boolean success; success is true exactly
\* when the status is 200 or 201 and false exactly when it is 400, 404 or
\* 500; a response whose success is false carries no data.
C22_Envelope ==
    \A r \in Reqs :
        Done(r)
            => LET res == reqs[r].res
               IN  /\ "success" \in DOMAIN res.body
                   /\ res.body.success \in BOOLEAN
                   /\ res.status \in {200, 201, 400, 404, 500}
                   /\ res.body.success <=> res.status \in {200, 201}
                   /\ ~res.body.success => "data" \notin DOMAIN res.body

\* C22 witness: a request refused by validation has been answered 400 with
\* success false and the list of issues under errors.
C22_Witness ==
    \E r \in Reqs :
        /\ Done(r)
        /\ reqs[r].res.status = 400
        /\ ~reqs[r].res.body.success
        /\ "errors" \in DOMAIN reqs[r].res.body
        /\ reqs[r].res.body.errors # <<>>

\* C23 as stated: an update whose body fails validation is answered 400
\* "Validation error" whatever its id; when its pre-check is answered and
\* the email of a valid body is held by a User with another id, it is
\* answered 400 "Email already in use by another user", whether or not the
\* id identifies a User; it is answered 404 only after validation passed and
\* the pre-check found no conflict.
C23_UpdateOrder ==
    [][\A r \in Reqs :
          /\ (reqs'[r].op = "update" /\ updateUserSchema(reqs'[r].body).issues # <<>>)
                => /\ reqs'[r].pc = "done"
                   /\ reqs'[r].res.status = 400
                   /\ reqs'[r].res.body.message = "Validation error"
          /\ (/\ PreCheckAnswered(r, "update")
              /\ \E other \in Holders(reqs[r].data.email) : other # reqs[r].id)
                => /\ reqs'[r].res.status = 400
                   /\ reqs'[r].res.body.message = "Email already in use by another user"
          /\ (Answered(r) /\ reqs[r].op = "update" /\ reqs'[r].res.status = 404)
                => /\ updateUserSchema(reqs[r].body).issues = <<>>
                   /\ "email" \in DOMAIN reqs[r].data
                         => FindOne(users, reqs[r].data.email, reqs[r].id) = {}]_vars

\* in this step the store answers the write of slot r, a User.create or a
\* findByIdAndUpdate that sets the email of a stored User, after the
\* request passed its pre-check
WriteAnswered(r) ==
    /\ Answered(r)
    /\ \/ reqs[r].op = "create" /\ reqs[r].pc = "create"
       \/ /\ reqs[r].op = "update" /\ reqs[r].pc = "findByIdAndUpdate"
          /\ "email" \in DOMAIN reqs[r].data
          /\ reqs[r].id \in DOMAIN users

\* slot q holds a write that raced with the write slot r is about to make:
\* it carried the same email, passed its pre-check and succeeded on another
\* User, which still holds the email, while r was between its own pre-check
\* and its write; one of the two is an update
Rival(r, q) ==
    /\ q # r
    /\ reqs[q].op \in {"create", "update"} /\ Done(q)
    /\ reqs[q].res.status \in {200, 201}
    /\ "email" \in DOMAIN reqs[q].data
    /\ ToLower(reqs[q].data.email) = ToLower(reqs[r].data.email)
    /\ reqs[r].op = "update" \/ reqs[q].op = "update"
    /\ reqs[q].res.body.data._id \in Holders(reqs[r].data.email) \ {reqs[r].id}

ConnectDBCalled(c) == conn[c] = "idle" /\ conn'[c] # "idle"

\* C25: connectDB calls mongoose.connect only when isConnected is false, and
\* a call made while it is true returns without connecting; isConnected
\* becomes true only when a connect call succeeds; when a 'disconnected' or
\* 'error' event has reset it, the next connectDB call connects again.
C25_ConnectOnlyWhenDisconnected ==
    [][/\ connects' # connects
             => /\ ~isConnected
                /\ connects' = connects + 1
                /\ \E c \in Callers : ConnectDBCalled(c) /\ conn'[c] = "connect"
       /\ \A c \in Callers :
             ConnectDBCalled(c)
                 => IF isConnected
                    THEN /\ conn'[c] = "returned"
                         /\ connects' = connects
                         /\ isConnected'
                    ELSE /\ conn'[c] = "connect"
                         /\ connects' = connects + 1
                         /\ ~isConnected'
       /\ (isConnected' /\ ~isConnected)
             => \E c \in Callers : conn[c] = "connect" /\ conn'[c] = "returned"
       /\ (isConnected /\ ~isConnected')
             => conn' = conn /\ connects' = connects]_vars

\* C25 witness: after the first connection an event reset the flag, a later
\* connectDB call connected again, and a call made since then returned
\* without connecting.
C25_Witness ==
    /\ isConnected
    /\ connects = 2
    /\ \E c, d \in Callers :
          /\ c # 0 /\ d # 0 /\ c # d
          /\ conn[c] = "returned"
          /\ conn[d] = "returned"

\* C26: the server starts listening only when the connectDB call of
\* startServer has returned, hence after a successful connect; when that
\* call throws, isConnected is false, the process exits, and a process that
\* has exited never listens nor does anything else.
C26_ListenAfterConnect ==
    [][/\ server' = "listening"
             => /\ conn'[0] = "returned"
                /\ connects' >= 1
       /\ (server' = "listening" /\ server # "listening")
             => server = "connecting" /\ conn[0] = "returned"
       /\ conn'[0] = "thrown"
             => /\ ~isConnected'
                /\ server' \in {"connecting", "exited"}
       /\ (server = "connecting" /\ conn[0] = "thrown")
             => server' \in {"connecting", "exited"}
       /\ server = "exited" => UNCHANGED vars]_vars

\* C26 witness: the connect call of startServer was rejected and the process
\* has exited without listening.
C26_Witness ==
    /\ server = "exited"
    /\ conn[0] = "thrown"
    /\ connects = 1
    /\ ~isConnected

\* C27: every invocation of a handler produces at most one outcome: no
\* response before it is done, exactly one once it is done (sent by the
\* handler itself or, after next(error), by the error middleware), on
\* every path, and nothing more afterwards.
C27_OneOutcome ==
    [][\A r \in Reqs :
          /\ Len(reqs'[r].sent) <= 1
          /\ reqs'[r].pc = "done" <=> Len(reqs'[r].sent) = 1
          /\ reqs'[r].pc = "done" => reqs'[r].sent = <<reqs'[r].res.status>>
          /\ (Done(r) /\ reqs'[r].op # "none") => reqs'[r].sent = reqs[r].sent]_vars

\* C27 witness: an update whose second storage call was rejected has
\* forwarded the error and was answered once, by the error middleware.
C27_Witness ==
    \E r \in Reqs :
        /\ reqs[r].op = "update" /\ Done(r)
        /\ reqs[r].fault /\ reqs[r].calls = 2
        /\ reqs[r].sent = <<500>>

\* C28: when every storage call issued eventually returns or fails, every
\* request being handled is eventually answered, whatever the other
\* requests in flight do.
C28_EveryRequestAnswered ==
    \A r \in Reqs : (reqs[r].pc \notin {"idle", "done"}) ~> Done(r)

\* C28 witness: two requests are in flight, the first still awaiting its
\* first storage call while the second already awaits its second one.
C28_Witness ==
    \E r, q \in Reqs :
        /\ r < q
        /\ reqs[r].pc \in StorageCalls /\ reqs[r].calls = 1
        /\ reqs[q].pc \in StorageCalls /\ reqs[q].calls = 2

\* the email of the create in slot r was given up by a User, deleted or
\* moved to another email, and no stored User holds it
FormerEmail(r) ==
    /\ reqs[r].op = "create"
    /\ ToLower(reqs[r].data.email) \in freed.emails
    /\ Holders(reqs[r].data.email) = {}

\* C29 as stated: a create with an email that a deleted User, or a User that
\* changed its email, used to hold and that no stored User holds passes the
\* pre-check, and when User.create is answered the response is 201.
C29_FormerEmailFree ==
    [][\A r \in Reqs :
          /\ (PreCheckAnswered(r, "create") /\ FormerEmail(r))
                 => reqs'[r].pc = "create"
          /\ (CreateAnswered(r) /\ FormerEmail(r))
                 => /\ reqs'[r].res.status = 201
                    /\ Holders(reqs[r].data.email)' # {}]_vars

====
